---- MODULE Spec2Model ----
(***************************************************************************)
(* RosBehaviourTreeDotcodeGenerator (rqt_py_trees/dotcode_behaviour.py):   *)
(* the generator object, its generate_dotcode entry point, the graph       *)
(* builder generate, the type/status classifiers and the tooltip           *)
(* formatter.  The rendering backend (dotcode_factory) is an external      *)
(* collaborator: the model records every call made to it.                  *)
(***************************************************************************)
EXTENDS Integers, Sequences, FiniteSets, TLC

VARIABLES
    self,   \* the generator object: the attributes set in __init__
    call,   \* record of the most recent generate_dotcode / generate call, <<>> before any
    data,   \* the behaviours handed to generate when it is exercised on its own
    tip     \* position and locals of the loop of behaviour_to_tooltip_string

vars == <<self, call, data, tip>>

----------------------------------------------------------------------------
(* Bounds *)

\* longest behaviour sequence handed to generate on its own
MaxNodes == 2
\* most child references in one such sequence, over all its behaviours
MaxEdges == 2
\* longest tree handed to generate_dotcode
MaxTreeNodes == 2

----------------------------------------------------------------------------
(* Python values *)

\* Python None where a string or an enumeration value is expected
None == "<None>"
\* Python None where an object (dict, graph, dotcode) is expected
NoObject == <<>>
\* a keyword argument the call site leaves to the backend's default
NotPassed == "<default>"

\* truth value of a string-or-None, as tested by `or` and `not`
Truthy(v) == v # None /\ v # ""

\* a or b
PyOr(a, b) == IF Truthy(a) THEN a ELSE b

\* str() of a uuid_msgs UniqueID; ids are numbered in the model
Str(id) == "uuid: [" \o ToString(id) \o "]"

----------------------------------------------------------------------------
(* Input domains *)

\* py_trees_msgs.Behaviour type constants, and one value none of the
\* classifiers names
Types == {"BEHAVIOUR", "SEQUENCE", "SELECTOR", "PARALLEL"}

\* py_trees_msgs.Behaviour status constants, and one value none of the
\* classifiers names
Statuses == {"INVALID", "RUNNING", "SUCCESS", "FAILURE", "UNKNOWN"}

\* class_name and message are free-form strings
Texts == {"", "Idle", "<i>empty</i>"}

Factories == {"pydot", "pygraphviz"}

\* rank, rankdir and ranksep of a call: the defaults of the signature, and
\* each of the three changed on its own
DefaultLayout == [rank |-> "same", rankdir |-> "TB", ranksep |-> "0.2"]

Layouts ==
    { DefaultLayout,
      [DefaultLayout EXCEPT !.rank = "min"],
      [DefaultLayout EXCEPT !.rankdir = "LR"],
      [DefaultLayout EXCEPT !.ranksep = "0.5"] }

----------------------------------------------------------------------------
(* Classifiers *)

type_to_shape(behaviour_type) ==
    IF behaviour_type = "BEHAVIOUR" THEN "ellipse"
    ELSE IF behaviour_type = "SEQUENCE" THEN "box"
    ELSE IF behaviour_type = "SELECTOR" THEN "ellipse"
    ELSE "box"

type_to_colour(behaviour_type) ==
    IF behaviour_type = "BEHAVIOUR" THEN None
    ELSE IF behaviour_type = "SEQUENCE" THEN "#ff9900"
    ELSE IF behaviour_type = "SELECTOR" THEN "#808080"
    ELSE None

status_to_colour(behaviour_status) ==
    IF behaviour_status = "INVALID" THEN "#e4e4e4"
    ELSE IF behaviour_status = "RUNNING" THEN "#000000"
    ELSE IF behaviour_status = "FAILURE" THEN "#ff0000"
    ELSE IF behaviour_status = "SUCCESS" THEN "#00ff00"
    ELSE None

type_to_string(behaviour_type) ==
    IF behaviour_type = "BEHAVIOUR" THEN "Behaviour"
    ELSE IF behaviour_type = "SEQUENCE" THEN "Sequence"
    ELSE IF behaviour_type = "SELECTOR" THEN "Selector"
    ELSE None

status_to_string(behaviour_status) ==
    IF behaviour_status = "INVALID" THEN "Invalid"
    ELSE IF behaviour_status = "RUNNING" THEN "Running"
    ELSE IF behaviour_status = "FAILURE" THEN "Failure"
    ELSE IF behaviour_status = "SUCCESS" THEN "Success"
    ELSE None

\* the colour generate hands to add_node_to_graph; the mutant gives the type
\* colour precedence
NodeColourTypeFirst(behaviour) ==
    PyOr(type_to_colour(behaviour.type), status_to_colour(behaviour.status))

NodeColour(behaviour) ==
    PyOr(status_to_colour(behaviour.status), type_to_colour(behaviour.type))

----------------------------------------------------------------------------
(* Tooltip formatter *)

\* attribute names as character sequences
to_display ==
    << <<"c","l","a","s","s","_","n","a","m","e">>,
       <<"t","y","p","e">>,
       <<"s","t","a","t","u","s">>,
       <<"m","e","s","s","a","g","e">> >>

LowerCase == <<"a","b","c","d","e","f","g","h","i","j","k","l","m",
               "n","o","p","q","r","s","t","u","v","w","x","y","z">>
UpperCase == <<"A","B","C","D","E","F","G","H","I","J","K","L","M",
               "N","O","P","Q","R","S","T","U","V","W","X","Y","Z">>

IsCased(c) == \E k \in 1..26 : c = LowerCase[k] \/ c = UpperCase[k]
Upper(c) == IF \E k \in 1..26 : c = LowerCase[k]
            THEN UpperCase[CHOOSE k \in 1..26 : c = LowerCase[k]] ELSE c
Lower(c) == IF \E k \in 1..26 : c = UpperCase[k]
            THEN LowerCase[CHOOSE k \in 1..26 : c = UpperCase[k]] ELSE c

\* s.replace(old, new) for single characters
Replace(s, old, new) == [k \in 1..Len(s) |-> IF s[k] = old THEN new ELSE s[k]]

\* s.title(): a cased character is upper-cased after an uncased one (or at
\* the start) and lower-cased otherwise
Title(s) ==
    [k \in 1..Len(s) |->
        IF k = 1 \/ ~IsCased(s[k-1]) THEN Upper(s[k]) ELSE Lower(s[k])]

\* the Python string spelled by a character sequence
RECURSIVE Join(_)
Join(s) == IF s = <<>> THEN "" ELSE Head(s) \o Join(Tail(s))

\* the attribute names as strings, and attr.replace('_', ' ').title() of each
attr_names == [k \in DOMAIN to_display |-> Join(to_display[k])]

attr_titles ==
    [k \in DOMAIN to_display |-> Join(Title(Replace(to_display[k], "_", " ")))]

\* the value looked up and converted for to_display[k] (the if/elif/else of
\* the loop body)
AttrValue(behaviour, k) ==
    IF attr_names[k] = "type" THEN type_to_string(behaviour[attr_names[k]])
    ELSE IF attr_names[k] = "status"
    THEN status_to_string(behaviour[attr_names[k]])
    ELSE behaviour[attr_names[k]]

\* value = "<i>empty</i>" if not value else value; the mutant keeps the value
SubstituteNever(value) == IF Truthy(value) THEN value ELSE ""

Substitute(value) == IF ~Truthy(value) THEN "<i>empty</i>" ELSE value

\* what one iteration appends to string
Field(k, value) ==
    "<b>" \o attr_titles[k] \o ":</b> " \o value \o "<br>"

\* the locals on entry: string = '', the loop at to_display[1], nothing
\* returned yet
TooltipEntry == [k |-> 1, value |-> None, string |-> "", returned |-> None]

\* one iteration of the loop, for to_display[t.k]
TooltipIter(behaviour, t) ==
    LET value == Substitute(AttrValue(behaviour, t.k))
    IN  [t EXCEPT !.k = @ + 1, !.value = value,
                  !.string = @ \o Field(t.k, value)]

\* the return statement
TooltipReturn(t) == [t EXCEPT !.returned = "\"" \o t.string \o "\""]

RECURSIVE TooltipRun(_, _)
TooltipRun(behaviour, t) ==
    IF t.k > Len(to_display) THEN TooltipReturn(t)
    ELSE TooltipRun(behaviour, TooltipIter(behaviour, t))

behaviour_to_tooltip_string(behaviour) ==
    TooltipRun(behaviour, TooltipEntry).returned

----------------------------------------------------------------------------
(* Rendering backend: the four operations of dotcode_factory.  A graph is   *)
(* the record of what get_graph was given and what has been added to it.    *)

Faults == {"get_graph", "add_node_to_graph", "add_edge_to_graph", "create_dot"}

\* dotcode_factory.get_graph(rank=..., rankdir=..., ranksep=...): a new, empty
\* graph; the mutant goes on with the graph of the previous call
get_graph_reused(slf) ==
    IF slf.graph # NoObject THEN slf.graph
    ELSE [factory |-> slf.dotcode_factory, rank |-> slf.rank,
          rankdir |-> slf.rankdir, ranksep |-> slf.ranksep,
          nodes |-> <<>>, edges |-> <<>>]

get_graph(slf) ==
    [factory |-> slf.dotcode_factory, rank |-> slf.rank,
     rankdir |-> slf.rankdir, ranksep |-> slf.ranksep,
     nodes |-> <<>>, edges |-> <<>>]

\* dotcode_factory.create_dot(graph): the description of that graph
create_dot(factory, graph) == [by |-> factory, dot_of |-> graph]

\* progress of one generate run: the graph under construction, the calls
\* made to the backend so far, the states dict, and the exception raised
\* ("" while running normally)
Raised(r) == r.raised # ""

\* a backend call: it is logged, then raises if the backend fails on this
\* operation and otherwise updates the graph
BackendCall(r, fault, entry, graph) ==
    IF entry.op = fault
    THEN [r EXCEPT !.log = Append(@, entry), !.raised = "BackendError"]
    ELSE [r EXCEPT !.log = Append(@, entry), !.graph = graph]

----------------------------------------------------------------------------
(* Graph builder *)

\* the add_node_to_graph call of the empty-data branch
PlaceholderCall(factory) ==
    [op |-> "add_node_to_graph", factory |-> factory,
     nodename |-> "No behaviour data received", nodelabel |-> NotPassed,
     shape |-> NotPassed, color |-> NotPassed, tooltip |-> NotPassed]

\* the add_node_to_graph call of the first loop
NodeCall(factory, behaviour) ==
    [op |-> "add_node_to_graph", factory |-> factory,
     nodename |-> Str(behaviour.own_id), nodelabel |-> behaviour.name,
     shape |-> type_to_shape(behaviour.type),
     color |-> NodeColour(behaviour),
     tooltip |-> behaviour_to_tooltip_string(behaviour)]

\* the if/elif chain choosing edge_color from the looked-up state
EdgeColour(state) ==
    IF state = "RUNNING" THEN <<0, 0, 0>>
    ELSE IF state = "SUCCESS" THEN <<0, 255, 0>>
    ELSE IF state = "FAILURE" THEN <<255, 0, 0>>
    ELSE <<224, 224, 224>>

\* the key looked up in states for an edge; the mutant looks up the parent
EdgeStateKeyParent(behaviour, child_id) == Str(behaviour.own_id)

EdgeStateKey(behaviour, child_id) == Str(child_id)

EdgeCall(factory, behaviour, child_id, edge_color) ==
    [op |-> "add_edge_to_graph", factory |-> factory,
     nodename1 |-> Str(behaviour.own_id), nodename2 |-> Str(child_id),
     color |-> edge_color]

\* first loop, from data[k] on: add the node, then states[str(own_id)] = status
RECURSIVE FirstPass(_, _, _, _, _)
FirstPass(slf, seq, fault, k, r) ==
    IF k > Len(seq) \/ Raised(r) THEN r
    ELSE LET entry == NodeCall(slf.dotcode_factory, seq[k])
             r1 == BackendCall(r, fault, entry,
                       [r.graph EXCEPT !.nodes = Append(@, entry)])
             r2 == IF Raised(r1) THEN r1
                   ELSE [r1 EXCEPT !.states =
                            (Str(seq[k].own_id) :> seq[k].status) @@ @]
         IN  FirstPass(slf, seq, fault, k + 1, r2)

\* one iteration of the inner loop: states[str(child_id)] raises KeyError
\* when the key is missing; the mutant skips such a child
EdgeStepSkipMissing(slf, behaviour, child_id, fault, r) ==
    IF EdgeStateKey(behaviour, child_id) \notin DOMAIN r.states
    THEN r
    ELSE LET state == r.states[EdgeStateKey(behaviour, child_id)]
             entry == EdgeCall(slf.dotcode_factory, behaviour, child_id,
                               EdgeColour(state))
         IN  BackendCall(r, fault, entry,
                         [r.graph EXCEPT !.edges = Append(@, entry)])

EdgeStep(slf, behaviour, child_id, fault, r) ==
    IF EdgeStateKey(behaviour, child_id) \notin DOMAIN r.states
    THEN [r EXCEPT !.raised = "KeyError"]
    ELSE LET state == r.states[EdgeStateKey(behaviour, child_id)]
             entry == EdgeCall(slf.dotcode_factory, behaviour, child_id,
                               EdgeColour(state))
         IN  BackendCall(r, fault, entry,
                         [r.graph EXCEPT !.edges = Append(@, entry)])

\* second loop, from child_ids[j] of data[k] on
RECURSIVE SecondPass(_, _, _, _, _, _)
SecondPass(slf, seq, fault, k, j, r) ==
    IF k > Len(seq) \/ Raised(r) THEN r
    ELSE IF j > Len(seq[k].child_ids)
    THEN SecondPass(slf, seq, fault, k + 1, 1, r)
    ELSE SecondPass(slf, seq, fault, k, j + 1,
                    EdgeStep(slf, seq[k], seq[k].child_ids[j], fault, r))

\* the len(data) == 0 branch; the mutant has no such branch
EmptyBranchMissing(slf, fault, r) == r

EmptyBranch(slf, fault, r) ==
    LET entry == PlaceholderCall(slf.dotcode_factory)
    IN  BackendCall(r, fault, entry, [r.graph EXCEPT !.nodes = Append(@, entry)])

\* the two loops in the order of the code; the mutant adds each behaviour's
\* edges right after its node, in a single loop
RECURSIVE SinglePass(_, _, _, _, _)
SinglePass(slf, seq, fault, k, r) ==
    IF k > Len(seq) \/ Raised(r) THEN r
    ELSE LET r1 == FirstPass(slf, SubSeq(seq, 1, k), fault, k, r)
             r2 == SecondPass(slf, SubSeq(seq, 1, k), fault, k, 1, r1)
         IN  SinglePass(slf, seq, fault, k + 1, r2)

LoopsSinglePass(slf, seq, fault, r) == SinglePass(slf, seq, fault, 1, r)

Loops(slf, seq, fault, r) ==
    SecondPass(slf, seq, fault, 1, 1, FirstPass(slf, seq, fault, 1, r))

\* generate(data, timestamp); the timestamp is not used.  fault is the
\* backend operation that raises during this run ("none": the backend works)
generate(slf, seq, fault) ==
    LET entry == [op |-> "get_graph", factory |-> slf.dotcode_factory,
                  rank |-> slf.rank, rankdir |-> slf.rankdir,
                  ranksep |-> slf.ranksep]
        r0 == BackendCall([graph |-> NoObject, log |-> <<>>,
                           states |-> <<>>, raised |-> ""],
                          fault, entry, get_graph(slf))
    IN  IF Raised(r0) THEN r0
        ELSE IF Len(seq) = 0 THEN EmptyBranch(slf, fault, r0)
        ELSE Loops(slf, seq, fault, r0)

----------------------------------------------------------------------------
(* The generator object *)

\* __init__
NewGenerator ==
    [last_drawargs |-> NoObject, dotcode |-> NoObject, firstcall |-> TRUE,
     rank |-> None, rankdir |-> None, ranksep |-> None,
     graph |-> NoObject, dotcode_factory |-> None]

\* the arguments of one generate_dotcode call; tree stands for
\* tree.behaviours, and the timer and the header stamp are not used
CallArgs(factories, layouts, forces, trees) ==
    { [dotcode_factory |-> f, rank |-> l.rank, rankdir |-> l.rankdir,
       ranksep |-> l.ranksep, force_refresh |-> fr, tree |-> t] :
        f \in factories, l \in layouts, fr \in forces, t \in trees }

\* the firstcall test at the top of generate_dotcode: the generator and the
\* local force_refresh after it
FirstCallCheck(slf, force_refresh) ==
    IF slf.firstcall = TRUE
    THEN [slf |-> [slf EXCEPT !.firstcall = FALSE], force_refresh |-> TRUE]
    ELSE [slf |-> slf, force_refresh |-> force_refresh]

\* the drawing_args dict
DrawingArgs(args) ==
    [dotcode_factory |-> args.dotcode_factory, rank |-> args.rank,
     rankdir |-> args.rankdir, ranksep |-> args.ranksep]

\* the comparison with last_drawargs and the assignments under it; the
\* mutants remember the dict but not the backend, or not the layout values
UpdateDrawArgsKeepFactory(slf, drawing_args) ==
    IF slf.last_drawargs # drawing_args
    THEN [slf EXCEPT !.last_drawargs = drawing_args,
                     !.dotcode_factory =
                        IF @ = None THEN drawing_args.dotcode_factory ELSE @,
                     !.rank = drawing_args.rank,
                     !.rankdir = drawing_args.rankdir,
                     !.ranksep = drawing_args.ranksep]
    ELSE slf

UpdateDrawArgs(slf, drawing_args) ==
    IF slf.last_drawargs # drawing_args
    THEN [slf EXCEPT !.last_drawargs = drawing_args,
                     !.dotcode_factory = drawing_args.dotcode_factory,
                     !.rank = drawing_args.rank,
                     !.rankdir = drawing_args.rankdir,
                     !.ranksep = drawing_args.ranksep]
    ELSE slf

\* self.graph = self.generate(...); self.dotcode = create_dot(self.graph);
\* return self.dotcode.  An exception leaves the assignments after it undone.
BuildAndRender(slf, tree, fault) ==
    LET g == generate(slf, tree, fault)
    IN  IF Raised(g)
        THEN [slf |-> slf, log |-> g.log, raised |-> g.raised,
              result |-> NoObject]
        ELSE LET s1 == [slf EXCEPT !.graph = g.graph]
                 entry == [op |-> "create_dot", factory |-> s1.dotcode_factory,
                           graph |-> s1.graph]
             IN  IF fault = "create_dot"
                 THEN [slf |-> s1, log |-> Append(g.log, entry),
                       raised |-> "BackendError", result |-> NoObject]
                 ELSE LET s2 == [s1 EXCEPT !.dotcode =
                                    create_dot(s1.dotcode_factory, s1.graph)]
                      IN  [slf |-> s2, log |-> Append(g.log, entry),
                           raised |-> "", result |-> s2.dotcode]

\* a generate_dotcode that hands back the cached dotcode unless a refresh is
\* forced, and takes force_refresh as passed (mutant)
generate_dotcode_reusing(slf, args, fault) ==
    IF ~args.force_refresh
    THEN [slf |-> [slf EXCEPT !.firstcall = FALSE], log |-> <<>>,
          raised |-> "", result |-> slf.dotcode]
    ELSE BuildAndRender(
            UpdateDrawArgs([slf EXCEPT !.firstcall = FALSE], DrawingArgs(args)),
            args.tree, fault)

\* generate_dotcode: the generator after the call, the backend calls made,
\* the exception raised ("" on a normal return) and the value returned
generate_dotcode(slf, args, fault) ==
    LET f == FirstCallCheck(slf, args.force_refresh)
        s == UpdateDrawArgs(f.slf, DrawingArgs(args))
    IN  BuildAndRender(s, args.tree, fault)

----------------------------------------------------------------------------
(* Inputs *)

\* sequences over S of length at most n
SeqsUpTo(S, n) == UNION {[1..m -> S] : m \in 0..n}

Behaviour(id, type, status, child_ids, class_name, message) ==
    [own_id |-> id, name |-> "b" \o ToString(id), type |-> type,
     status |-> status, child_ids |-> child_ids,
     class_name |-> class_name, message |-> message]

\* a chain of n behaviours, each the parent of the next; the last one is a
\* leaf, or names a child that is not in the tree
Chain(n, dangling) ==
    [k \in 1..n |->
        Behaviour(k,
                  IF k < n \/ dangling THEN "SEQUENCE" ELSE "BEHAVIOUR",
                  IF k < n THEN "RUNNING" ELSE "SUCCESS",
                  IF k < n \/ dangling THEN <<k + 1>> ELSE <<>>,
                  "Chain", "")]

\* the trees handed to generate_dotcode: the chains up to the longest, and
\* the longest one with a child that is not in the tree
Trees ==
    {Chain(n, FALSE) : n \in 0..MaxTreeNodes} \cup {Chain(MaxTreeNodes, TRUE)}

RECURSIVE TotalLen(_, _)
TotalLen(c, n) == IF n = 0 THEN 0 ELSE Len(c[n]) + TotalLen(c, n - 1)

\* the child_ids of n behaviours: lists over the ids present (self
\* references, cycles, shared and repeated children included)
ChildLists ==
    [n \in 0..MaxNodes |->
        {c \in [1..n -> SeqsUpTo(1..n, MaxEdges)] : TotalLen(c, n) <= MaxEdges}]

\* the sequences of n behaviours for generate: ids 1..n in order, every
\* status
Snapshots(n) ==
    { [k \in 1..n |->
          Behaviour(k, IF c[k] = <<>> THEN "BEHAVIOUR" ELSE "SEQUENCE",
                    st[k], c[k], "Snap", "")] :
        st \in [1..n -> Statuses], c \in ChildLists[n] }

\* single behaviours of every type, status, class_name and message
SingleBehaviours ==
    { <<Behaviour(1, t, st, <<>>, cn, msg)>> :
        t \in Types, st \in Statuses, cn \in Texts, msg \in Texts }

\* generators on which generate can run: generate_dotcode has stored a
\* backend and layout values
ReadyGenerators ==
    { UpdateDrawArgs(FirstCallCheck(NewGenerator, FALSE).slf, d) :
        d \in { DrawingArgs(a) :
                   a \in CallArgs({"pydot"}, {DefaultLayout}, {FALSE}, {<<>>})
                      \cup CallArgs({"pygraphviz"},
                                    {[DefaultLayout EXCEPT !.rank = "min"]},
                                    {FALSE}, {<<>>}) } }

----------------------------------------------------------------------------
(* The generator in use: generate_dotcode calls *)

Init ==
    /\ self = NewGenerator
    /\ call = NoObject
    /\ data = NoObject
    /\ tip = NoObject

\* what is recorded of one generate_dotcode call run to completion: its
\* arguments and outcome, whether it is the first, second or a later call
\* (nth, 3 standing for any later one), and whether the call before it had
\* the same arguments and met the same backend
CallRecord(prev, args, fault, out) ==
    [args |-> args, fault |-> fault,
     nth |-> IF prev = NoObject THEN 1 ELSE IF prev.nth = 1 THEN 2 ELSE 3,
     repeat |-> prev # NoObject /\ prev.args = args /\ prev.fault = fault,
     log |-> out.log, raised |-> out.raised, result |-> out.result]

\* a call with a working backend
Call ==
    \E args \in CallArgs(Factories, Layouts, BOOLEAN, Trees) :
        LET out == generate_dotcode(self, args, "none")
        IN  /\ self' = out.slf
            /\ call' = CallRecord(call, args, "none", out)
            /\ UNCHANGED <<data, tip>>

\* a call with the default rank, rankdir, ranksep and force_refresh
DefaultArgs == CallArgs(Factories, {DefaultLayout}, {FALSE}, Trees)

DefaultCall ==
    \E args \in DefaultArgs :
        LET out == generate_dotcode(self, args, "none")
        IN  /\ self' = out.slf
            /\ call' = CallRecord(call, args, "none", out)
            /\ UNCHANGED <<data, tip>>

\* such a call during which one backend operation raises
FaultyCall ==
    \E args \in DefaultArgs, fault \in Faults :
        LET out == generate_dotcode(self, args, fault)
        IN  /\ self' = out.slf
            /\ call' = CallRecord(call, args, fault, out)
            /\ UNCHANGED <<data, tip>>

Next == Call

Spec == Init /\ [][Next]_vars

NextFault == DefaultCall \/ FaultyCall

SpecFault == Init /\ [][NextFault]_vars

----------------------------------------------------------------------------
(* generate on its own *)

InitGenerate ==
    /\ self \in ReadyGenerators
    /\ call = NoObject
    /\ \E n \in 0..MaxNodes : data \in Snapshots(n)
    /\ tip = NoObject

GenerateStep ==
    /\ call = NoObject
    /\ call' = generate(self, data, "none")
    /\ UNCHANGED <<self, data, tip>>

NextGenerate == GenerateStep

SpecGenerate == InitGenerate /\ [][NextGenerate]_vars

----------------------------------------------------------------------------
(* one behaviour: its node and its tooltip *)

InitNode ==
    /\ self \in ReadyGenerators
    /\ call = NoObject
    /\ data \in SingleBehaviours
    /\ tip = TooltipEntry

\* one iteration of the loop of behaviour_to_tooltip_string(data[1])
TooltipStep ==
    /\ tip.k <= Len(to_display)
    /\ tip' = TooltipIter(data[1], tip)
    /\ UNCHANGED <<self, call, data>>

TooltipDone ==
    /\ tip.k > Len(to_display)
    /\ tip.returned = None
    /\ tip' = TooltipReturn(tip)
    /\ UNCHANGED <<self, call, data>>

NextNode == GenerateStep \/ TooltipStep \/ TooltipDone

SpecNode == InitNode /\ [][NextNode]_vars

----------------------------------------------------------------------------
(* Reading a call record *)

\* the entries of a log made by one backend operation
EntriesOf(log, op) == SelectSeq(log, LAMBDA e : e.op = op)

NodeEntries(log) == EntriesOf(log, "add_node_to_graph")
EdgeEntries(log) == EntriesOf(log, "add_edge_to_graph")

\* the ids of the behaviours of a sequence
IdsOf(seq) == {seq[k].own_id : k \in 1..Len(seq)}

UniqueIds(seq) ==
    \A k, m \in 1..Len(seq) : seq[k].own_id = seq[m].own_id => k = m

\* some child_ids entry names no behaviour of the sequence
HasDangling(seq) ==
    \E k \in 1..Len(seq) :
        \E j \in 1..Len(seq[k].child_ids) : seq[k].child_ids[j] \notin IdsOf(seq)

\* the (parent, child) keys of a sequence, parents in input order and each
\* parent's children in child_ids order
RECURSIVE EdgeKeysFrom(_, _)
EdgeKeysFrom(seq, k) ==
    IF k > Len(seq) THEN <<>>
    ELSE [j \in 1..Len(seq[k].child_ids) |->
             <<Str(seq[k].own_id), Str(seq[k].child_ids[j])>>]
         \o EdgeKeysFrom(seq, k + 1)

EdgeKeys(seq) == EdgeKeysFrom(seq, 1)

\* generate made exactly the calls the claim describes for seq: get_graph,
\* then one add-node per behaviour, then one add-edge per child reference,
\* and the graph returned holds those nodes and edges and no others
OneNodePerBehaviourThenEdges(seq, c) ==
    LET nodes == NodeEntries(c.log)
        edges == EdgeEntries(c.log)
    IN  /\ c.raised = ""
        /\ [k \in 1..Len(nodes) |-> nodes[k].nodename]
              = [k \in 1..Len(seq) |-> Str(seq[k].own_id)]
        /\ [k \in 1..Len(edges) |-> <<edges[k].nodename1, edges[k].nodename2>>]
              = EdgeKeys(seq)
        /\ c.log = <<c.log[1]>> \o nodes \o edges
        /\ c.log[1].op = "get_graph"
        /\ c.graph.nodes = nodes
        /\ c.graph.edges = edges

----------------------------------------------------------------------------
(* C1: generate on a sequence with unique ids and no dangling child *)

\* C1 as stated: for every behaviour sequence with unique ids whose child ids
\* all name behaviours of the sequence, generate returns after exactly one
\* add-node call per behaviour, in input order and keyed by str(own_id),
\* followed by exactly one add-edge call per (parent, child id) in input
\* order, and adds nothing else.
C1_AsStated ==
    (call # NoObject /\ UniqueIds(data) /\ ~HasDangling(data))
        => OneNodePerBehaviourThenEdges(data, call)

\* C1 amended: the same, for every such sequence that is not empty.
C1_NonEmpty ==
    (call # NoObject /\ data # <<>> /\ UniqueIds(data) /\ ~HasDangling(data))
        => OneNodePerBehaviourThenEdges(data, call)

\* generate has run on two behaviours, the first with two children, one of
\* them itself and one the behaviour after it
C1_Witness ==
    /\ call # NoObject
    /\ Len(data) = 2
    /\ data[1].child_ids = <<2, 1>>
    /\ Len(EdgeEntries(call.log)) = 2
    /\ call.raised = ""

----------------------------------------------------------------------------
(* C2: a child id that names no behaviour of the tree *)

\* C2: when some child_ids entry of the tree names no behaviour of the tree,
\* the generate_dotcode call ends with an exception: no edge to the missing
\* child has been added, nothing is returned and create_dot is not called.
C2_DanglingChildFails ==
    (call # NoObject /\ HasDangling(call.args.tree)) =>
        /\ call.raised # ""
        /\ call.result = NoObject
        /\ \A k \in 1..Len(call.log) :
              /\ call.log[k].op # "create_dot"
              /\ call.log[k].op = "add_edge_to_graph" =>
                    \E id \in IdsOf(call.args.tree) :
                        call.log[k].nodename2 = Str(id)

\* a call on a tree with a dangling child has failed after the edges before
\* the dangling one were added
C2_Witness ==
    /\ call # NoObject
    /\ HasDangling(call.args.tree)
    /\ call.raised = "KeyError"
    /\ Len(EdgeEntries(call.log)) = Len(EdgeKeys(call.args.tree)) - 1

----------------------------------------------------------------------------
(* C3: the colour of a node *)

StatusColours ==
    [INVALID |-> "#e4e4e4", RUNNING |-> "#000000",
     SUCCESS |-> "#00ff00", FAILURE |-> "#ff0000"]

TypeColours == [SEQUENCE |-> "#ff9900", SELECTOR |-> "#808080"]

\* C3: for every type and status, recognized or not, the colour handed to
\* add-node is the status colour when the status is Invalid, Running, Success
\* or Failure, otherwise the type colour (Sequence, Selector), otherwise no
\* colour; generate raises nothing.
C3_StatusColourFirst ==
    (call # NoObject /\ Len(data) = 1) =>
        LET b == data[1]
            nodes == NodeEntries(call.log)
        IN  /\ call.raised = ""
            /\ Len(nodes) = 1
            /\ nodes[1].color =
                  IF b.status \in DOMAIN StatusColours
                  THEN StatusColours[b.status]
                  ELSE IF b.type \in DOMAIN TypeColours
                  THEN TypeColours[b.type]
                  ELSE None

\* a Sequence whose status is Success has been added green
C3_Witness ==
    /\ call # NoObject
    /\ Len(data) = 1
    /\ data[1].type = "SEQUENCE"
    /\ data[1].status = "SUCCESS"
    /\ NodeEntries(call.log)[1].color = "#00ff00"

----------------------------------------------------------------------------
(* C4: no behaviours *)

\* C4: for an empty tree, whatever rank, rankdir and ranksep are cached,
\* generate returns normally a graph to which exactly one add-node call (the
\* placeholder) and no add-edge call were made.
C4_EmptyTreePlaceholder ==
    (call # NoObject /\ call.args.tree = <<>>) =>
        /\ call.raised = ""
        /\ NodeEntries(call.log)
              = <<PlaceholderCall(call.args.dotcode_factory)>>
        /\ EdgeEntries(call.log) = <<>>
        /\ Len(self.graph.nodes) = 1
        /\ Len(self.graph.edges) = 0

\* a later call with an empty tree and a non-default rank has returned
C4_Witness ==
    /\ call # NoObject
    /\ call.args.tree = <<>>
    /\ call.nth = 3
    /\ self.rank = "min"
    /\ call.result # NoObject

----------------------------------------------------------------------------
(* C5: repeating a call *)

\* C5: when a generate_dotcode call that is not the first is followed by a
\* call with the same backend, tree, rank, rankdir and ranksep (force_refresh
\* false), the second makes the same backend calls with the same arguments
\* and returns the same description.
C5_RepeatedCallSame ==
    [][ ( /\ call # NoObject
          /\ call.nth > 1
          /\ call'.repeat
          /\ ~call'.args.force_refresh )
        => ( /\ call'.log = call.log
             /\ call'.result = call.result
             /\ call'.raised = call.raised ) ]_vars

\* the third or a later call has repeated the call before it and returned a
\* description of a tree with an edge
C5_Witness ==
    /\ call # NoObject
    /\ call.nth = 3
    /\ call.repeat
    /\ ~call.args.force_refresh
    /\ call.result # NoObject
    /\ EdgeEntries(call.log) # <<>>

----------------------------------------------------------------------------
(* C6: every call rebuilds and renders with its own arguments *)

\* C6: every generate_dotcode call that returns, first or not, forced or
\* not, with the cached configuration or another, has built the graph of its
\* own tree with its own rank, rankdir and ranksep on its own backend and
\* rendered it there; the cached configuration is then that of the call and
\* the cached description is the value returned.
C6_RebuildsWithCallArguments ==
    (call # NoObject /\ call.raised = "") =>
        LET a == call.args
            n == Len(call.log)
        IN  /\ call.log[1] = [op |-> "get_graph",
                              factory |-> a.dotcode_factory, rank |-> a.rank,
                              rankdir |-> a.rankdir, ranksep |-> a.ranksep]
            /\ \A k \in 1..n : call.log[k].factory = a.dotcode_factory
            /\ IF a.tree = <<>>
               THEN Len(NodeEntries(call.log)) = 1
               ELSE /\ [k \in 1..Len(a.tree) |-> NodeEntries(call.log)[k].nodename]
                          = [k \in 1..Len(a.tree) |-> Str(a.tree[k].own_id)]
                    /\ Len(NodeEntries(call.log)) = Len(a.tree)
            /\ [k \in 1..Len(EdgeEntries(call.log)) |->
                    <<EdgeEntries(call.log)[k].nodename1,
                      EdgeEntries(call.log)[k].nodename2>>] = EdgeKeys(a.tree)
            /\ call.log[n].op = "create_dot"
            /\ call.log[n].graph = self.graph
            /\ self.graph.nodes = NodeEntries(call.log)
            /\ self.graph.edges = EdgeEntries(call.log)
            /\ self.graph.factory = a.dotcode_factory
            /\ <<self.graph.rank, self.graph.rankdir, self.graph.ranksep>>
                  = <<a.rank, a.rankdir, a.ranksep>>
            /\ n = 2 + Len(NodeEntries(call.log)) + Len(EdgeEntries(call.log))
            /\ self.last_drawargs = DrawingArgs(a)
            /\ <<self.dotcode_factory, self.rank, self.rankdir, self.ranksep>>
                  = <<a.dotcode_factory, a.rank, a.rankdir, a.ranksep>>
            /\ self.dotcode = call.result
            /\ call.result = create_dot(a.dotcode_factory, self.graph)

\* a later, unforced call with arguments other than those of the call
\* before it has returned
C6_Witness ==
    /\ call # NoObject
    /\ call.nth = 3
    /\ ~call.repeat
    /\ ~call.args.force_refresh
    /\ call.args.dotcode_factory = "pygraphviz"
    /\ call.args.tree # <<>>
    /\ call.raised = ""
    /\ self.dotcode = call.result

----------------------------------------------------------------------------
(* C7: the first call *)

\* C7: the first generate_dotcode call on a new generator does the same with
\* force_refresh false as with force_refresh true: the same backend calls,
\* the same value returned, the same generator afterwards; firstcall is true
\* exactly as long as no call has been made.
C7_FirstCallAsForced ==
    /\ self.firstcall <=> call = NoObject
    /\ (call # NoObject /\ call.nth = 1) =>
          LET forced == generate_dotcode(
                            NewGenerator,
                            [call.args EXCEPT !.force_refresh = ~@],
                            call.fault)
          IN  /\ forced.slf = self
              /\ forced.log = call.log
              /\ forced.raised = call.raised
              /\ forced.result = call.result

\* the first call, made with force_refresh false, has built and rendered a
\* tree with an edge
C7_Witness ==
    /\ call # NoObject
    /\ call.nth = 1
    /\ ~call.args.force_refresh
    /\ ~self.firstcall
    /\ EdgeEntries(call.log) # <<>>
    /\ call.result # NoObject
    /\ self.dotcode = call.result

----------------------------------------------------------------------------
(* C8: the tooltip *)

TypeLabels ==
    [BEHAVIOUR |-> "Behaviour", SEQUENCE |-> "Sequence", SELECTOR |-> "Selector"]

StatusLabels ==
    [INVALID |-> "Invalid", RUNNING |-> "Running",
     SUCCESS |-> "Success", FAILURE |-> "Failure"]

\* the value under each of the four fields, "" when there is none
Underlying(b) ==
    << b.class_name,
       IF b.type \in DOMAIN TypeLabels THEN TypeLabels[b.type] ELSE "",
       IF b.status \in DOMAIN StatusLabels THEN StatusLabels[b.status] ELSE "",
       b.message >>

Placeholder == "<i>empty</i>"

\* a field as it is to be shown
Shown(b, k) == IF Underlying(b)[k] = "" THEN Placeholder ELSE Underlying(b)[k]

\* the returned string: one quoted string of four fields in fixed order
FourFields(b) ==
    "\"" \o "<b>Class Name:</b> " \o Shown(b, 1) \o "<br>"
         \o "<b>Type:</b> " \o Shown(b, 2) \o "<br>"
         \o "<b>Status:</b> " \o Shown(b, 3) \o "<br>"
         \o "<b>Message:</b> " \o Shown(b, 4) \o "<br>" \o "\""

\* C8 as stated: the string returned is the four fields Class Name, Type,
\* Status, Message in that order, and the value of a field is the placeholder
\* exactly when the value under it is empty (class_name or message the empty
\* string, type or status not recognized), never the empty string.
C8_AsStated ==
    tip # NoObject =>
        /\ tip.k > 1 =>
              /\ (tip.value = Placeholder) <=> (Underlying(data[1])[tip.k - 1] = "")
              /\ tip.value # ""
        /\ tip.returned # None => tip.returned = FourFields(data[1])

\* C8 amended: the string returned is the four fields in that order; a field
\* whose underlying value is empty shows the placeholder, never the empty
\* string, and every other field shows its value unchanged (so a class_name
\* or message that is itself the placeholder text shows as the placeholder).
C8_EmptyShowsPlaceholder ==
    tip # NoObject =>
        /\ tip.k > 1 =>
              /\ (Underlying(data[1])[tip.k - 1] = "") => tip.value = Placeholder
              /\ (Underlying(data[1])[tip.k - 1] # "") =>
                    tip.value = Underlying(data[1])[tip.k - 1]
              /\ tip.value # ""
        /\ tip.returned # None => tip.returned = FourFields(data[1])

\* the tooltip of a behaviour with an empty message and a type that is not
\* recognized has been returned
C8_Witness ==
    /\ tip # NoObject
    /\ tip.returned # None
    /\ data[1].message = ""
    /\ data[1].class_name = "Idle"
    /\ data[1].type = "PARALLEL"
    /\ tip.value = Placeholder

----------------------------------------------------------------------------
(* C9: the colour of an edge *)

EdgeColours ==
    [RUNNING |-> <<0, 0, 0>>, SUCCESS |-> <<0, 255, 0>>,
     FAILURE |-> <<255, 0, 0>>]

\* C9: every edge generate adds is coloured by the status of the child it
\* points to (black Running, green Success, red Failure, light gray
\* otherwise), whatever the status of the parent and wherever the child
\* stands in the input, self references and shared children included.
C9_EdgeColourFromChild ==
    call # NoObject =>
        LET edges == EdgeEntries(call.log)
        IN  /\ Len(edges) = Len(EdgeKeys(data))
            /\ \A k \in 1..Len(edges) :
                  \E m \in 1..Len(data) :
                      /\ Str(data[m].own_id) = edges[k].nodename2
                      /\ edges[k].color =
                            IF data[m].status \in DOMAIN EdgeColours
                            THEN EdgeColours[data[m].status]
                            ELSE <<224, 224, 224>>

\* a failed parent placed before its running child, which also refers to
\* itself: both edges to the child are black
C9_Witness ==
    /\ call # NoObject
    /\ Len(data) = 2
    /\ data[1].status = "FAILURE"
    /\ data[2].status = "RUNNING"
    /\ data[1].child_ids = <<2>>
    /\ data[2].child_ids = <<2>>
    /\ \A k \in 1..2 : EdgeEntries(call.log)[k].color = <<0, 0, 0>>

----------------------------------------------------------------------------
(* C10: the cached graph and the cached description *)

\* C10: between generate_dotcode calls, failed ones included, the cached
\* graph and the cached description are both unset, or the description is
\* the rendering of the cached graph.
C10_CachePairConsistent ==
    \/ self.graph = NoObject /\ self.dotcode = NoObject
    \/ /\ self.graph # NoObject
       /\ self.dotcode # NoObject
       /\ self.dotcode.dot_of = self.graph

====
